---- MODULE Spec2Model ----
(***************************************************************************)
(* Model of the loss functions (deepxml/libs/loss.py) and of the samplers  *)
(* (siamesexml/libs/sampling.py).                                          *)
(*                                                                         *)
(* Real numbers are fixed point: a real r is the integer r * Scale.  Every *)
(* modelled value is a multiple of 1/10, so products and squares of two    *)
(* values are exact in units of 1/Scale.  Targets, selections and          *)
(* embedding components are plain integers.  A mean is kept as the exact   *)
(* fraction num/den.                                                       *)
(***************************************************************************)
EXTENDS Integers, Sequences, FiniteSets, TLC

\* ------------------------------------------------------------------ bounds
BatchSize == 2
OutputSize == 2
Scale == 10 * 10
MaxSize == 2
MaxSamples == 2
MaxInstances == 2
ProbDenom == 2
MaxPersistSize == 2

\* An optional value is a sequence of at most one element: None of Python (and
\* an argument the caller leaves out) is the empty one.
None == <<>>
Omitted == <<>>
Some(v) == <<v>>
Val(o) == o[1]

VARIABLES
    loss,       \* the loss object after its constructor ran (or the exception)
    lossArgs,   \* (input, target, mask) of the last forward call
    lossOut,    \* what the last forward call returned
    triplet,    \* the TripletMarginLossOHNM object
    tripletArgs,\* (doc_embeddings, label_embeddings, selection) of the call
    tripletOut, \* what forward returned or raised, with its locals
    samplers,   \* the sampler objects, by the name that holds them
    given,      \* the arguments each sampler's constructor was called with
    file,       \* the content of the file save writes and load reads
    ret         \* the last sampler call and what it returned or raised

lossVars == <<loss, lossArgs, lossOut>>
tripletVars == <<triplet, tripletArgs, tripletOut>>
samplerVars == <<samplers, given, file, ret>>
vars == <<loss, lossArgs, lossOut, triplet, tripletArgs, tripletOut,
          samplers, given, file, ret>>

\* ------------------------------------------------------- numeric helpers
Max(a, b) == IF a >= b THEN a ELSE b
Min(a, b) == IF a <= b THEN a ELSE b
Abs(a) == IF a >= 0 THEN a ELSE -a
\* product of two fixed-point values
Mul(a, b) == (a * b) \div Scale

Rows == 0 .. (BatchSize - 1)
Cols == 0 .. (OutputSize - 1)
Cells == Rows \X Cols

RECURSIVE SumOver(_, _)
SumOver(m, S) ==
    IF S = {} THEN 0
    ELSE LET c == CHOOSE c \in S : TRUE IN m[c] + SumOver(m, S \ {c})

\* --------------------------------------------------------------- _Loss
\* _Loss.__init__(self, reduction='mean', pad_ind=None), called with the
\* positional arguments `args`: more than two is a TypeError.
LossBaseInit(args) ==
    IF Len(args) > 2 THEN [status |-> "TypeError"]
    ELSE [status |-> "ok",
          reduction |-> IF Len(args) >= 1 THEN args[1] ELSE "mean",
          pad_ind |-> IF Len(args) >= 2 THEN args[2] ELSE None]

\* _Loss._reduce: the loss itself, its mean over all entries, or its sum
Reduce(reduction, m) ==
    IF reduction = "none"
    THEN [status |-> "ok", shape |-> "matrix", mat |-> m, num |-> 0, den |-> 1]
    ELSE IF reduction = "mean"
    THEN [status |-> "ok", shape |-> "scalar", mat |-> <<>>,
          num |-> SumOver(m, DOMAIN m), den |-> Cardinality(DOMAIN m)]
    ELSE [status |-> "ok", shape |-> "scalar", mat |-> <<>>,
          num |-> SumOver(m, DOMAIN m), den |-> 1]

\* _Loss._mask_at_pad
MaskAtPad(pad_ind, m) ==
    IF pad_ind # None
    THEN [c \in DOMAIN m |-> IF c[2] = Val(pad_ind) THEN 0 ELSE m[c]]
    ELSE m

\* _Loss._mask: masked_fill(~mask, 0.0)
Mask(m, mask) ==
    IF mask # None
    THEN [c \in DOMAIN m |-> IF ~Val(mask)[c] THEN 0 ELSE m[c]]
    ELSE m

\* _convert_labels_for_svm
ConvertLabelsForSvm(y) == 2 * y - 1

Relu(v) == Max(0, v)

\* log(1 + exp(-|x|)) rounded to 1/Scale, for the inputs of InputVals
Log1pExpNeg(a) ==
    CASE a = 0 -> 69
      [] a = 100 -> 31
      [] OTHER -> 0

\* F.binary_cross_entropy_with_logits(input, target, None, pos_weight=None,
\* reduction='none'), one element: max(x, 0) - x * y + log(1 + exp(-|x|))
BinaryCrossEntropyWithLogits(x, y) == Max(x, 0) - x * y + Log1pExpNeg(Abs(x))

\* ---------------------------------------------------------- constructors
Kinds == {"HingeLoss", "SquaredHingeLoss", "BCEWithLogitsLoss",
          "CosineEmbeddingLoss"}

\* the keyword parameters each __init__ accepts
Signature(kind) ==
    CASE kind = "HingeLoss" -> {"margin", "reduction", "pad_ind"}
      [] kind = "SquaredHingeLoss" ->
            {"margin", "size_average", "reduce", "reduction"}
      [] kind = "BCEWithLogitsLoss" ->
            {"weight", "reduction", "pos_weight", "pad_ind"}
      [] kind = "CosineEmbeddingLoss" -> {"margin", "reduction", "pos_weight"}

\* the arguments each class docstring lists
Documented(kind) ==
    CASE kind = "HingeLoss" -> {"margin", "reduction", "pad_ind"}
      [] kind = "SquaredHingeLoss" -> {"margin", "reduction", "pad_ind"}
      [] kind = "BCEWithLogitsLoss" ->
            {"weight", "reduction", "pos_weight", "pad_ind"}
      [] kind = "CosineEmbeddingLoss" ->
            {"weight", "reduction", "pos_weight", "pad_ind"}

Passed(call) ==
    {k \in {"margin", "reduction", "pad_ind", "pos_weight"} : call[k] # Omitted}

Arg(call, k, default) == IF call[k] = Omitted THEN default ELSE Val(call[k])

HingeLossInit(call) ==
    LET base == LossBaseInit(<<Arg(call, "reduction", "mean"), call.pad_ind>>)
    IN  IF base.status # "ok" THEN [status |-> base.status, kind |-> call.kind]
        ELSE [status |-> "ok", kind |-> call.kind,
              reduction |-> base.reduction, pad_ind |-> base.pad_ind,
              margin |-> Arg(call, "margin", 100), pos_weight |-> 0]

\* super().__init__(size_average, reduce, reduction)
SquaredHingeLossInit(call) ==
    LET base == LossBaseInit(<<"None", "True", Arg(call, "reduction", "mean")>>)
    IN  IF base.status # "ok" THEN [status |-> base.status, kind |-> call.kind]
        ELSE [status |-> "ok", kind |-> call.kind,
              reduction |-> base.reduction, pad_ind |-> base.pad_ind,
              margin |-> Arg(call, "margin", 100), pos_weight |-> 0]

BCEWithLogitsLossInit(call) ==
    LET base == LossBaseInit(<<Arg(call, "reduction", "mean"), call.pad_ind>>)
    IN  IF base.status # "ok" THEN [status |-> base.status, kind |-> call.kind]
        ELSE [status |-> "ok", kind |-> call.kind,
              reduction |-> base.reduction, pad_ind |-> base.pad_ind,
              margin |-> 0, pos_weight |-> 0]

\* super().__init__(reduction=reduction)
CosineEmbeddingLossInit(call) ==
    LET base == LossBaseInit(<<Arg(call, "reduction", "mean")>>)
    IN  IF base.status # "ok" THEN [status |-> base.status, kind |-> call.kind]
        ELSE [status |-> "ok", kind |-> call.kind,
              reduction |-> base.reduction, pad_ind |-> base.pad_ind,
              margin |-> Arg(call, "margin", 80),
              pos_weight |-> Arg(call, "pos_weight", 100)]

\* Calling a class: an unexpected keyword argument is a TypeError before
\* __init__ runs.
New(call) ==
    IF ~(Passed(call) \subseteq Signature(call.kind))
    THEN [status |-> "TypeError", kind |-> call.kind]
    ELSE CASE call.kind = "HingeLoss" -> HingeLossInit(call)
           [] call.kind = "SquaredHingeLoss" -> SquaredHingeLossInit(call)
           [] call.kind = "BCEWithLogitsLoss" -> BCEWithLogitsLossInit(call)
           [] call.kind = "CosineEmbeddingLoss" -> CosineEmbeddingLossInit(call)

\* -------------------------------------------------------------- forward
HingeElement(self, x, y) == Relu(self.margin - ConvertLabelsForSvm(y) * x)

SquaredHingeElement(self, x, y) ==
    LET l == Relu(self.margin - ConvertLabelsForSvm(y) * x) IN Mul(l, l)

CosineElement(self, x, y) ==
    IF y > 0 THEN Mul(Scale - x, self.pos_weight)
    ELSE Max(0, x - self.margin)

ElementLoss(self, x, y) ==
    CASE self.kind = "HingeLoss" -> HingeElement(self, x, y)
      [] self.kind = "SquaredHingeLoss" -> SquaredHingeElement(self, x, y)
      [] self.kind = "BCEWithLogitsLoss" -> BinaryCrossEntropyWithLogits(x, y)
      [] self.kind = "CosineEmbeddingLoss" -> CosineElement(self, x, y)

\* the elementwise loss of the whole batch, before masking
RawLoss(self, input, target) ==
    [c \in Cells |-> ElementLoss(self, input[c], target[c])]

\* forward(self, input, target, mask=None) of the four classes
ForwardValue(self, input, target, mask) ==
    Reduce(self.reduction,
           Mask(MaskAtPad(self.pad_ind, RawLoss(self, input, target)), mask))

\* ------------------------------------------------------------ the inputs
InputVals == {-100, 100}
Margins == {Omitted, Some(50)}
Reductions == {Omitted, Some("none"), Some("mean"), Some("sum"),
               Some("batchmean")}
PadInds == {Omitted} \cup {Some(j) : j \in Cols}
PosWeights == {Omitted, Some(200)}

CtorCalls ==
    {c \in [kind : Kinds, margin : Margins, reduction : Reductions,
            pad_ind : PadInds, pos_weight : PosWeights] :
        /\ c.pos_weight # Omitted => c.kind = "CosineEmbeddingLoss"
        /\ c.margin # Omitted => c.kind # "BCEWithLogitsLoss"}

NoLoss == [status |-> "unborn"]
NoCall == [status |-> "nocall"]

\* ------------------------------------------------ TripletMarginLossOHNM
EmbDim == 2
EmbVals == {-1, 0, 1}
Dims == 0 .. (EmbDim - 1)
Embeddings == [Rows \X Dims -> EmbVals]
Selections == [Rows \X Rows -> {0, 1}]

\* the names loss.py binds at module level
Globals == {"torch", "F", "_Loss", "_convert_labels_for_svm", "HingeLoss",
            "SquaredHingeLoss", "BCEWithLogitsLoss", "CosineEmbeddingLoss",
            "TripletMarginLossOHNM"}

\* __init__(self, margin=0.8, reduction='mean'):
\* super().__init__(reduction=reduction); self.margin = margin
TripletMarginLossOHNMInit(call) ==
    LET base == LossBaseInit(<<Arg(call, "reduction", "mean")>>)
    IN  [reduction |-> base.reduction, pad_ind |-> base.pad_ind,
         margin |-> Arg(call, "margin", 80)]

RECURSIVE DotFrom(_, _, _, _, _)
DotFrom(a, i, b, j, k) ==
    IF k = EmbDim THEN 0
    ELSE a[<<i, k>>] * b[<<j, k>>] + DotFrom(a, i, b, j, k + 1)

\* (doc_embeddings @ label_embeddings.T)[i, j]
MatMulT(doc, label, i, j) == DotFrom(doc, i, label, j, 0)

\* torch.min(doc_embeddings @ label_embeddings.T, 1 - selection)
Similarities(doc, label, selection) ==
    [c \in Rows \X Rows |->
        Min(MatMulT(doc, label, c[1], c[2]), 1 - selection[c])]

\* torch.topk(similarities, largest=True, dim=1, k=1): the indices a row's
\* maximum is at; which of several equal maxima is returned is not specified.
TopK1(sim, i) ==
    {j \in Rows : \A k \in Rows : sim[<<i, j>>] >= sim[<<i, k>>]}

\* forward(self, doc_embeddings, label_embeddings, selection) after line 288
\* returned the hardest negatives `indices`.  Line 291 reads self._eps, which
\* no __init__ sets: AttributeError.  Were it set, line 294 reads the name
\* margin, which is neither a local nor one of Globals: NameError.  No call
\* reaches line 296; the result keeps the locals the call had when it raised.
TripletForward(self, doc, label, selection, indices) ==
    IF "_eps" \notin DOMAIN self
    THEN [status |-> "AttributeError", line |-> 291, indices |-> indices,
          num |-> 0, den |-> 1]
    ELSE [status |-> IF "margin" \in Globals THEN "ok" ELSE "NameError",
          line |-> 294, indices |-> indices, num |-> 0, den |-> 1]

TripletCalls ==
    [kind : {"TripletMarginLossOHNM"}, margin : Margins,
     reduction : {Omitted, Some("sum")}, pad_ind : {Omitted},
     pos_weight : {Omitted}]

\* ------------------------------------------------------------ samplers
SamplerIds == {"A", "B"}
Classes == {"BaseSampler", "NegativeSampler", "Sampler"}
NoSampler == [cls |-> "unborn"]
NoFile == <<>>
NoRet == [op |-> "none"]

RECURSIVE SeqSum(_)
SeqSum(q) == IF q = <<>> THEN 0 ELSE Head(q) + SeqSum(Tail(q))

\* np.arange(n) as a sequence
Arange(n) == [k \in 1 .. n |-> k - 1]

\* randint with high taken as a possible value
RandintInclusive(low, high, size) ==
    IF low >= high THEN [status |-> "ValueError", outcomes |-> {}]
    ELSE [status |-> "ok", outcomes |-> [1 .. size -> low .. high]]

\* np.random.randint(low, high, size): `size` values of [low, high),
\* ValueError unless low < high
Randint(low, high, size) ==
    IF low >= high THEN [status |-> "ValueError", outcomes |-> {}]
    ELSE [status |-> "ok", outcomes |-> [1 .. size -> low .. (high - 1)]]

\* Generator.choice(a, size, replace, p) over the population `pop` (arange(a)
\* for an int a): `size` draws, each an element of pop with non-zero
\* probability, at distinct positions of pop without replacement.  p (weights
\* in units of 1/ProbDenom) must be as long as pop and sum to 1.
Choice(pop, size, replace, p) ==
    LET n == Len(pop)
        live == {k \in 1 .. n : p = None \/ Val(p)[k] > 0}
    IN  IF n = 0 THEN [status |-> "ValueError", outcomes |-> {}]
        ELSE IF p # None /\ Len(Val(p)) # n
        THEN [status |-> "ValueError", outcomes |-> {}]
        ELSE IF p # None /\ SeqSum(Val(p)) # ProbDenom
        THEN [status |-> "ValueError", outcomes |-> {}]
        ELSE IF ~replace /\ size > Cardinality(live)
        THEN [status |-> "ValueError", outcomes |-> {}]
        ELSE [status |-> "ok",
              outcomes |->
                {[k \in 1 .. size |-> pop[pos[k]]] :
                    pos \in {q \in [1 .. size -> live] :
                               replace \/ \A x, y \in 1 .. size :
                                            x # y => q[x] # q[y]}}]

\* BaseSampler.__init__(self, size, num_samples, prob=None, replace=True),
\* before _construct
BaseSamplerInit(call) ==
    [cls |-> call.cls, size |-> call.size, num_samples |-> call.num_samples,
     prob |-> call.prob, replace |-> Arg(call, "replace", TRUE)]

\* _construct of the three classes: the partial function kept in self.index
BaseConstruct(self) ==
    [fn |-> "randint", low |-> 0, high |-> self.size,
     a |-> None, replace |-> TRUE, p |-> None]

NegativeConstruct(self) ==
    [fn |-> "choice", low |-> 0, high |-> 0,
     a |-> Some(self.size), replace |-> self.replace, p |-> self.prob]

SamplerConstruct(self) ==
    [fn |-> "choice", low |-> 0, high |-> 0,
     a |-> None, replace |-> self.replace, p |-> None]

NewSampler(call) ==
    LET self == BaseSamplerInit(call)
        index == CASE call.cls = "BaseSampler" -> BaseConstruct(self)
                   [] call.cls = "NegativeSampler" -> NegativeConstruct(self)
                   [] call.cls = "Sampler" -> SamplerConstruct(self)
    IN  [cls |-> self.cls, size |-> self.size,
         num_samples |-> self.num_samples, prob |-> self.prob,
         replace |-> self.replace, index |-> index]

\* one (indices, weights) pair; `scalar` when indices is a single number
Pair(indices, weights, scalar) ==
    [indices |-> indices, weights |-> weights, scalar |-> scalar]

\* BaseSampler._query: (self.index(size=self.num_samples),
\*                      [1.0] * self.num_samples)
BaseQueryOne(self) ==
    LET drawn == IF self.index.fn = "randint"
                 THEN Randint(self.index.low, self.index.high,
                              self.num_samples)
                 ELSE Choice(Arange(Val(self.index.a)), self.num_samples,
                             self.index.replace, self.index.p)
    IN  [status |-> drawn.status,
         outcomes |-> {Pair(d, [k \in 1 .. self.num_samples |-> 1], FALSE) :
                          d \in drawn.outcomes}]

\* self.prob[ind]
SubProb(prob, ind) ==
    IF prob = None THEN None
    ELSE Some([k \in 1 .. Len(ind) |-> Val(prob)[ind[k] + 1]])

\* Sampler._query(ind): (self.index(a=ind, p=prob), [1.0])
SamplerQueryOne(self, ind) ==
    LET drawn == Choice(ind, 1, self.index.replace, SubProb(self.prob, ind))
    IN  [status |-> drawn.status,
         outcomes |-> {Pair(d, <<1>>, TRUE) : d \in drawn.outcomes}]

\* the lists whose i-th item is one of the outcomes of the i-th _query
Lists(one, n) ==
    {q \in [1 .. n -> UNION {one[i].outcomes : i \in 1 .. n}] :
        \A i \in 1 .. n : q[i] \in one[i].outcomes}

\* query of the three classes: one pair for num_instances = 1, else a list of
\* num_instances pairs; `inds` holds the candidate array of each instance
\* (Sampler only).  An exception in any _query is the exception of query.
Query(self, n, inds) ==
    LET one == [i \in 1 .. n |->
                   IF self.cls = "Sampler" THEN SamplerQueryOne(self, inds[i])
                   ELSE BaseQueryOne(self)]
        bad == {i \in 1 .. n : one[i].status # "ok"}
    IN  IF bad # {}
        THEN [status |-> one[CHOOSE i \in bad : \A j \in bad : i <= j].status,
              single |-> (n = 1), outcomes |-> {<<>>}]
        ELSE [status |-> "ok", single |-> (n = 1),
              outcomes |-> Lists(one, n)]

\* pickle.dump(self.__dict__, f) and pickle.load(f): the attributes as a stream
\* of (name, value) items and back
Pickle(self) ==
    <<<<"size", self.size>>, <<"num_samples", self.num_samples>>,
      <<"prob", self.prob>>, <<"replace", self.replace>>,
      <<"index", self.index>>>>

Unpickle(bytes) ==
    LET at(name) == bytes[CHOOSE k \in 1 .. Len(bytes) : bytes[k][1] = name][2]
    IN  [size |-> at("size"), num_samples |-> at("num_samples"),
         prob |-> at("prob"), replace |-> at("replace"),
         index |-> at("index")]

\* a load that writes the attributes it read into the object
LoadUpdatesObject(self, bytes) ==
    LET d == Unpickle(bytes)
    IN  [cls |-> self.cls, size |-> d.size, num_samples |-> d.num_samples,
         prob |-> d.prob, replace |-> d.replace, index |-> d.index]

\* BaseSampler.load: `self = pickle.load(...)` binds the local name self to
\* what was read; the object the caller holds is what it was.
Load(self, bytes) == self

\* the distributions over n items, in units of 1/ProbDenom
Distributions(n) ==
    {d \in [1 .. n -> 0 .. ProbDenom] : SeqSum(d) = ProbDenom}

\* the constructor calls: size and num_samples, and for the two classes that
\* read them, prob (a distribution over the size items) and replace
SamplerCalls ==
    {c \in [cls : Classes, size : 1 .. MaxSize,
            num_samples : 0 .. MaxSamples,
            prob : {None} \cup {Some(d) : d \in UNION {Distributions(n) :
                                                  n \in 1 .. MaxSize}},
            replace : {Omitted, Some(TRUE), Some(FALSE)}] :
        /\ c.prob # None => Len(Val(c.prob)) = c.size
        /\ c.cls = "BaseSampler" => c.prob = None /\ c.replace = Omitted}

\* the configurations of the two samplers that share the file: one sample,
\* prob None or uniform, replace left out or False
PersistCalls ==
    {c \in SamplerCalls :
        /\ c.size <= MaxPersistSize
        /\ c.num_samples = 1
        /\ c.replace # Some(TRUE)
        /\ c.prob # None =>
              \A k \in 1 .. c.size : Val(c.prob)[k] = Val(c.prob)[1]}

\* the candidate arrays of a Sampler query: non-empty, increasing, in [0, size)
Candidates(size) ==
    {q \in UNION {[1 .. n -> 0 .. (size - 1)] : n \in 1 .. size} :
        \A k \in 1 .. (Len(q) - 1) : q[k] < q[k + 1]}

\* ------------------------------------------------------------ actions
LossIdle ==
    /\ loss = NoLoss
    /\ lossArgs = NoCall
    /\ lossOut = NoCall

TripletIdle ==
    /\ triplet = NoLoss
    /\ tripletArgs = NoCall
    /\ tripletOut = NoCall

\* loss = Kind(**call)
Construct(call) ==
    /\ loss = NoLoss
    /\ loss' = [obj |-> New(call), call |-> call, status |-> "called"]
    /\ UNCHANGED <<lossArgs, lossOut, tripletVars, samplerVars>>

\* out = loss(input, target, mask)
Forward ==
    /\ loss.status = "called"
    /\ loss.obj.status = "ok"
    /\ lossArgs = NoCall
    /\ \E input \in [Cells -> InputVals], target \in [Cells -> {0, 1}],
          mask \in {None} \cup {Some(m) : m \in [Cells -> BOOLEAN]} :
        /\ lossArgs' = [status |-> "call", input |-> input,
                        target |-> target, mask |-> mask]
        /\ lossOut' = ForwardValue(loss.obj, input, target, mask)
    /\ UNCHANGED <<loss, tripletVars, samplerVars>>

\* criterion = TripletMarginLossOHNM(**call)
TripletConstruct(call) ==
    /\ triplet = NoLoss
    /\ triplet' = [obj |-> TripletMarginLossOHNMInit(call), call |-> call,
                   status |-> "called"]
    /\ UNCHANGED <<tripletArgs, tripletOut, lossVars, samplerVars>>

\* criterion(doc_embeddings, label_embeddings, selection)
TripletCall ==
    /\ triplet.status = "called"
    /\ tripletArgs = NoCall
    /\ \E doc \in Embeddings, label \in Embeddings, selection \in Selections :
        LET sim == Similarities(doc, label, selection) IN
        \E indices \in [Rows -> Rows] :
            /\ \A i \in Rows : indices[i] \in TopK1(sim, i)
            /\ tripletArgs' = [status |-> "call", doc |-> doc,
                               label |-> label, selection |-> selection]
            /\ tripletOut' =
                   TripletForward(triplet.obj, doc, label, selection, indices)
    /\ UNCHANGED <<triplet, lossVars, samplerVars>>

SamplerIdle ==
    /\ samplers = [id \in SamplerIds |-> NoSampler]
    /\ given = [id \in SamplerIds |-> NoSampler]
    /\ file = NoFile
    /\ ret = NoRet

Return(op, who, n, inds, status, single, pairs) ==
    [op |-> op, who |-> who, n |-> n, inds |-> inds, status |-> status,
     single |-> single, pairs |-> pairs]

\* id = Class(size, num_samples, prob, replace)
SamplerNew(id, call) ==
    /\ samplers[id] = NoSampler
    /\ samplers' = [samplers EXCEPT ![id] = NewSampler(call)]
    /\ given' = [given EXCEPT ![id] = call]
    /\ UNCHANGED <<file, ret, lossVars, tripletVars>>

\* id.query(n) of a BaseSampler or NegativeSampler, id.query(n, ind) of a
\* Sampler (ind one candidate array for n = 1, a list of n of them otherwise)
SamplerQuery(id, counts) ==
    /\ samplers[id] # NoSampler
    /\ \E n \in counts :
       \E inds \in IF samplers[id].cls = "Sampler"
                   THEN [1 .. n -> Candidates(samplers[id].size)]
                   ELSE {<<>>} :
        LET r == Query(samplers[id], n, inds) IN
        \E pairs \in r.outcomes :
            ret' = Return("query", id, n, inds, r.status, r.single, pairs)
    /\ UNCHANGED <<samplers, given, file, lossVars, tripletVars>>

\* id.save(fname)
SamplerSave(id) ==
    /\ samplers[id] # NoSampler
    /\ file' = Pickle(samplers[id])
    /\ ret' = Return("save", id, 0, <<>>, "ok", FALSE, <<>>)
    /\ UNCHANGED <<samplers, given, lossVars, tripletVars>>

\* id.load(fname): FileNotFoundError when nothing was saved
SamplerLoad(id) ==
    /\ samplers[id] # NoSampler
    /\ IF file = NoFile
       THEN /\ ret' = Return("load", id, 0, <<>>, "FileNotFoundError",
                             FALSE, <<>>)
            /\ UNCHANGED samplers
       ELSE /\ samplers' = [samplers EXCEPT ![id] = Load(samplers[id], file)]
            /\ ret' = Return("load", id, 0, <<>>, "ok", FALSE, <<>>)
    /\ UNCHANGED <<given, file, lossVars, tripletVars>>

Init == LossIdle /\ TripletIdle /\ SamplerIdle

Next ==
    \/ \E call \in CtorCalls : Construct(call)
    \/ Forward

Spec == Init /\ [][Next]_vars

NextTriplet ==
    \/ \E call \in TripletCalls : TripletConstruct(call)
    \/ TripletCall

SpecTriplet == Init /\ [][NextTriplet]_vars

\* One sampler of any configuration, queried once: query reads the object and
\* changes nothing, so one call shows all it can return.
NextSampler ==
    \/ \E call \in SamplerCalls : SamplerNew("A", call)
    \/ (ret = NoRet /\ SamplerQuery("A", 1 .. MaxInstances))

SpecSampler == Init /\ [][NextSampler]_vars

\* Two samplers sharing the file, under any sequence of query, save and load.
NextPersist ==
    \/ \E id \in SamplerIds, call \in PersistCalls : SamplerNew(id, call)
    \/ \E id \in SamplerIds : SamplerQuery(id, {1})
    \/ \E id \in SamplerIds : SamplerSave(id)
    \/ \E id \in SamplerIds : SamplerLoad(id)

SpecPersist == Init /\ [][NextPersist]_vars

\* ---------------------------------------------------------------- claims
\* the entries the mask and the pad index leave in the loss
Kept ==
    {c \in Cells :
        /\ lossArgs.mask # None => Val(lossArgs.mask)[c]
        /\ loss.obj.pad_ind # None => c[2] # Val(loss.obj.pad_ind)}

Returned == lossOut # NoCall /\ lossOut.status = "ok"

\* C1: with reduction='mean', forward returns the sum of the elementwise
\* losses of the unmasked, non-pad entries divided by the number of those
\* entries (stated where there is at least one such entry).
C1_MeanOverKeptEntries ==
    (Returned /\ loss.obj.reduction = "mean" /\ Kept # {}) =>
        lossOut.num * Cardinality(Kept) =
            SumOver(RawLoss(loss.obj, lossArgs.input, lossArgs.target), Kept)
                * lossOut.den

\* What the code computes instead: the same sum over the number of all entries.
C1_MeanOverAllEntries ==
    (Returned /\ loss.obj.reduction = "mean") =>
        lossOut.num * Cardinality(Cells) =
            SumOver(RawLoss(loss.obj, lossArgs.input, lossArgs.target), Kept)
                * lossOut.den

ZeroWhereMaskedOrPad ==
    /\ lossOut.shape = "matrix"
    /\ \A c \in Cells : c \notin Kept => lossOut.mat[c] = 0

\* C3: every loss of the family, built from its documented arguments with
\* reduction='none', yields an output that is 0 wherever the mask is False and
\* in the whole pad column when a pad index is given.
C3_MaskedAndPadEntriesZero ==
    (/\ loss.status = "called"
     /\ loss.call.reduction = Some("none")
     /\ Passed(loss.call) \subseteq Documented(loss.call.kind)) =>
        /\ loss.obj.status = "ok"
        /\ Returned => ZeroWhereMaskedOrPad

\* The part of C3 the code does satisfy: whenever forward returns an unreduced
\* loss, its masked-off entries and its pad column are 0.
C3_ReturnedOutputsZero ==
    (Returned /\ loss.obj.reduction = "none") => ZeroWhereMaskedOrPad

\* C5: SquaredHingeLoss(margin, reduction) can be constructed, and with
\* reduction='none' its output is the elementwise square of HingeLoss's.
C5_SquaredHingeIsHingeSquared ==
    (/\ loss.status = "called"
     /\ loss.call.kind = "SquaredHingeLoss"
     /\ Passed(loss.call) \subseteq {"margin", "reduction"}) =>
        /\ loss.obj.status = "ok"
        /\ (Returned /\ loss.obj.reduction = "none") =>
            LET hinge == ForwardValue(
                    New([loss.call EXCEPT !.kind = "HingeLoss"]),
                    lossArgs.input, lossArgs.target, lossArgs.mask)
            IN  \A c \in Cells :
                    lossOut.mat[c] = Mul(hinge.mat[c], hinge.mat[c])

TripletDone == tripletOut # NoCall

\* C2: for a document with at least one non-positive label, the index chosen
\* as hardest negative is never one of its positives.  Stated for the rows
\* whose masked similarity has a single maximum, where the index topk returns
\* is determined.
C2_HardestNegativeIsNegative ==
    TripletDone =>
        \A i \in Rows :
            (/\ \E j \in Rows : tripletArgs.selection[<<i, j>>] = 0
             /\ Cardinality(TopK1(Similarities(tripletArgs.doc,
                     tripletArgs.label, tripletArgs.selection), i)) = 1) =>
                tripletArgs.selection[<<i, tripletOut.indices[i]>>] = 0

OneHotRow(e, i) ==
    /\ \A k \in Dims : e[<<i, k>>] \in {0, 1}
    /\ Cardinality({k \in Dims : e[<<i, k>>] = 1}) = 1

\* C6: with identical one-hot embeddings and each selection row marking only
\* the document's own positive, forward returns the mean (reduction='mean')
\* or sum of max(0, sim_n - 1 + margin) over the documents.
C6_OneHotLossValue ==
    (/\ TripletDone
     /\ tripletArgs.doc = tripletArgs.label
     /\ \A i \in Rows : OneHotRow(tripletArgs.doc, i)
     /\ \A c \in Rows \X Rows :
            tripletArgs.selection[c] = IF c[1] = c[2] THEN 1 ELSE 0) =>
        LET simn == [i \in Rows |->
                        Scale * DotFrom(tripletArgs.doc, i, tripletArgs.label,
                                        tripletOut.indices[i], 0)]
            l == [i \in Rows |->
                        Max(0, simn[i] - Scale + triplet.obj.margin)]
        IN  /\ tripletOut.status = "ok"
            /\ tripletOut.num * (IF triplet.obj.reduction = "mean"
                                 THEN BatchSize ELSE 1)
                 = SumOver(l, Rows) * tripletOut.den

\* ------------------------------------------------------- sampler claims
Queried(cls) ==
    /\ ret.op = "query"
    /\ samplers[ret.who].cls = cls

InRange(q, size) == \A k \in 1 .. Len(q) : q[k] \in 0 .. (size - 1)

Ones(n) == [k \in 1 .. n |-> 1]

\* C7: BaseSampler(size, num_samples).query(n) returns one pair for n = 1 and
\* a list of n pairs otherwise; each pair has num_samples indices in [0, size)
\* and num_samples weights 1.0.
C7_BaseSamplerQuery ==
    Queried("BaseSampler") =>
        /\ ret.status = "ok"
        /\ ret.single = (ret.n = 1)
        /\ Len(ret.pairs) = ret.n
        /\ \A i \in 1 .. Len(ret.pairs) :
            /\ ~ret.pairs[i].scalar
            /\ Len(ret.pairs[i].indices) = given[ret.who].num_samples
            /\ InRange(ret.pairs[i].indices, given[ret.who].size)
            /\ ret.pairs[i].weights = Ones(given[ret.who].num_samples)

C7_Witness ==
    /\ Queried("BaseSampler")
    /\ ret.n = 2
    /\ given[ret.who].size = 2
    /\ given[ret.who].num_samples = 2
    /\ ret.pairs[1].indices = <<1, 0>>
    /\ ret.pairs[2].indices = <<0, 1>>

Distinct(q) == \A x, y \in 1 .. Len(q) : x # y => q[x] # q[y]

\* C8: every NegativeSampler result holds num_negatives indices, each in
\* [0, num_labels) and of non-zero probability; they are pairwise distinct
\* when replace is False, and also when replace was left out.
C8_NegativeSamplerQuery ==
    (Queried("NegativeSampler") /\ ret.status = "ok") =>
        \A i \in 1 .. Len(ret.pairs) :
            LET q == ret.pairs[i].indices
                g == given[ret.who]
            IN  /\ Len(q) = g.num_samples
                /\ InRange(q, g.size)
                /\ g.prob # None =>
                      \A k \in 1 .. Len(q) : Val(g.prob)[q[k] + 1] > 0
                /\ g.replace # Some(TRUE) => Distinct(q)

\* The same with the default as the code has it (replace=True): distinct
\* only when replace=False was passed.
C8_DistinctWhenReplaceFalse ==
    (Queried("NegativeSampler") /\ ret.status = "ok") =>
        \A i \in 1 .. Len(ret.pairs) :
            LET q == ret.pairs[i].indices
                g == given[ret.who]
            IN  /\ Len(q) = g.num_samples
                /\ InRange(q, g.size)
                /\ g.prob # None =>
                      \A k \in 1 .. Len(q) : Val(g.prob)[q[k] + 1] > 0
                /\ g.replace = Some(FALSE) => Distinct(q)

\* C9: Sampler.query(1, ind) returns, without error, one element of ind with
\* weights [1.0]; query(n, ind) returns n such pairs, the i-th from ind[i].
C9_SamplerQuery ==
    Queried("Sampler") =>
        /\ ret.status = "ok"
        /\ ret.single = (ret.n = 1)
        /\ Len(ret.pairs) = ret.n
        /\ \A i \in 1 .. Len(ret.pairs) :
            /\ ret.pairs[i].scalar
            /\ \E k \in 1 .. Len(ret.inds[i]) :
                    ret.pairs[i].indices = <<ret.inds[i][k]>>
            /\ ret.pairs[i].weights = <<1>>

Config(self) ==
    <<self.size, self.num_samples, self.prob, self.replace>>

\* C4: after load, the loading sampler's configuration is the one the file
\* holds, that is the saving sampler's at the time of the save.
C4_LoadRestoresSaved ==
    (ret.op = "load" /\ ret.status = "ok") =>
        Config(samplers[ret.who]) = Config(Unpickle(file))

====
